---- MODULE Spec2Model ----
(***************************************************************************)
(* Model of autodx: the expression-tree builder and its tree algorithms    *)
(* (forward_ast.py) and the forward-mode dual-number evaluator             *)
(* (forward.py).                                                           *)
(*                                                                         *)
(* Python objects live in a heap: `nodes` is the sequence of Expr objects  *)
(* created so far and an object's identity is its position in it.  Expr    *)
(* defines no __eq__, so == and `in` on nodes compare identities.          *)
(* Numbers are exact rationals (a Python int n is n/1; true division       *)
(* yields the exact quotient instead of the nearest float).                *)
(***************************************************************************)
EXTENDS Integers, Sequences, FiniteSets, TLC

VARIABLES
    nodes,   \* the Expr objects created so far (forward_ast.py 9-13, 60-64, 75-79, 91-109)
    pc,      \* where the client is: "ready", "returned", "indexed", "gradient", "raised"
    ret,     \* the last call: its name, its arguments, what it returned or raised
    gX,      \* gradient: X                     (forward.py 57)
    gf,      \* gradient: f                     (forward.py 57)
    gi,      \* gradient: iterations completed  (forward.py 63)
    gdX,     \* gradient: dX                    (forward.py 62, 67)
    gcalls   \* gradient: the argument vectors f was called with (forward.py 65-66)

vars == <<nodes, pc, ret, gX, gf, gi, gdX, gcalls>>

-----------------------------------------------------------------------------
(* Bounds *)

MaxAstNodes == 3
MaxIdxNodes == 4
NegFirst == 1
MaxFirst == 1
MaxArgs == 2

Numbers == {5}
VarVals == {2, 3}
IdxVarVals == {2}
GivenNames == {"a"}
BinOps == {"+", "-", "*", "/"}
IdxBinOps == {"*"}
UnaryFns == {"sin", "ln"}
IdxUnaryFns == {"sin"}
FirstIndices == (0 - NegFirst)..MaxFirst
FwdVals == {0, 2, 3}
FwdSeeds == {0, 1}
GradFns == {"sum", "diff", "prod", "quot", "first", "sumprod"}

-----------------------------------------------------------------------------
(* Python values *)

Abs(i) == IF i < 0 THEN 0 - i ELSE i

RECURSIVE Gcd(_, _)
Gcd(a, b) == IF b = 0 THEN a ELSE Gcd(b, a % b)

Num(n) == [t |-> "num", n |-> n, d |-> 1]

Frac(n, d) ==
    LET g == Gcd(Abs(n), Abs(d))
        s == IF d < 0 THEN 0 - 1 ELSE 1
    IN [t |-> "num", n |-> (s * n) \div g, d |-> (s * d) \div g]

Obj == [t |-> "object", n |-> 0, d |-> 1]
NpVal == [t |-> "numpy", n |-> 0, d |-> 1]
Raise(e) == [t |-> e, n |-> 0, d |-> 1]

IsRaise(v) == v.t \in {"TypeError", "AttributeError", "ZeroDivisionError"}

PyAdd(a, b) ==
    IF IsRaise(a) THEN a
    ELSE IF IsRaise(b) THEN b
    ELSE IF a.t = "object" \/ b.t = "object" THEN Raise("TypeError")
    ELSE IF a.t = "numpy" \/ b.t = "numpy" THEN NpVal
    ELSE Frac(a.n * b.d + b.n * a.d, a.d * b.d)

PySub(a, b) ==
    IF IsRaise(a) THEN a
    ELSE IF IsRaise(b) THEN b
    ELSE IF a.t = "object" \/ b.t = "object" THEN Raise("TypeError")
    ELSE IF a.t = "numpy" \/ b.t = "numpy" THEN NpVal
    ELSE Frac(a.n * b.d - b.n * a.d, a.d * b.d)

PyMul(a, b) ==
    IF IsRaise(a) THEN a
    ELSE IF IsRaise(b) THEN b
    ELSE IF a.t = "object" \/ b.t = "object" THEN Raise("TypeError")
    ELSE IF a.t = "numpy" \/ b.t = "numpy" THEN NpVal
    ELSE Frac(a.n * b.n, a.d * b.d)

PyDiv(a, b) ==
    IF IsRaise(a) THEN a
    ELSE IF IsRaise(b) THEN b
    ELSE IF a.t = "object" \/ b.t = "object" THEN Raise("TypeError")
    ELSE IF a.t = "numpy" \/ b.t = "numpy" THEN NpVal
    ELSE IF b.n = 0 THEN Raise("ZeroDivisionError")
    ELSE Frac(a.n * b.d, a.d * b.n)

(* numpy's sin, cos and log: an opaque real for a number, a TypeError for *)
(* an object that is no number. *)
NpFn(a) ==
    IF IsRaise(a) THEN a
    ELSE IF a.t = "object" THEN Raise("TypeError")
    ELSE NpVal

-----------------------------------------------------------------------------
(* forward_ast.py: the node classes *)

Unset == -1
NoAttr == 0
ObjRef == 0 - 2

NoneName == [k |-> "None", s |-> "", i |-> 0]
Given(s) == [k |-> "str", s |-> s, i |-> 0]
sub(s, i) == [k |-> "sub", s |-> s, i |-> i]

Expr(kind, x, varname, left, right, opnd) ==
    [kind |-> kind, x |-> x, vi |-> Unset, varname |-> varname,
     left |-> left, right |-> right, opnd |-> opnd]

Var(x, varname) == Expr("Var", x, varname, NoAttr, NoAttr, NoAttr)

Const(v) == Expr("Const", v, NoneName, NoAttr, NoAttr, NoAttr)

BinaryOp(left, op, right) ==
    Expr(CASE op = "+" -> "Add" [] op = "-" -> "Sub"
           [] op = "*" -> "Mul" [] op = "/" -> "Div",
         Num(0), NoneName, left, right, NoAttr)

UnaryOp(op, opnd) ==
    Expr(CASE op = "sin" -> "Sin" [] op = "ln" -> "Ln",
         Num(0), NoneName, NoAttr, NoAttr, opnd)

IsVar(n) == n.kind = "Var"
IsConst(n) == n.kind = "Const"
IsBinaryOp(n) == n.kind \in {"Add", "Sub", "Mul", "Div"}
IsUnaryOp(n) == n.kind \in {"Sin", "Ln"}

children(n) ==
    IF IsBinaryOp(n) THEN <<n.left, n.right>>
    ELSE IF IsUnaryOp(n) THEN <<n.opnd>>
    ELSE <<>>

(* An operand of an overload or of sin/ln: a node of the heap, a plain     *)
(* number, or some other object (neither an Expr nor a numbers.Number).    *)
NodeArg(i) == [t |-> "node", v |-> i]
NumArg(c) == [t |-> "number", v |-> c]
ObjArg == [t |-> "object", v |-> 0]

isNumber(a) == a.t = "number"
ArgVal(a) == IF a.t = "number" THEN Num(a.v) ELSE Obj
ArgRef(a) == IF a.t = "node" THEN a.v ELSE ObjRef

(* Expr.__op__ rejecting an operand that is neither a node nor a number *)
Expr__op__checked(h, op, self, other) ==
    IF other.t = "object" THEN [raised |-> "TypeError", h |-> h]
    ELSE [raised |-> "None",
          h |-> IF isNumber(other)
                THEN h \o <<Const(ArgVal(other)), BinaryOp(self, op, Len(h) + 1)>>
                ELSE Append(h, BinaryOp(self, op, ArgRef(other)))]

(* self op other: Expr.__add__, __sub__, __mul__, __truediv__.  Returns    *)
(* the exception raised ("None" for a normal return) and the heap after    *)
(* the call; the node returned is the last of the heap.                    *)
Expr__op__(h, op, self, other) ==
    [raised |-> "None",
     h |-> IF isNumber(other)
           THEN h \o <<Const(ArgVal(other)), BinaryOp(self, op, Len(h) + 1)>>
           ELSE Append(h, BinaryOp(self, op, ArgRef(other)))]

(* Expr.__rop__ keeping self as the left operand *)
Expr__rop__unflipped(h, op, self, other) ==
    [raised |-> "None",
     h |-> h \o <<Const(ArgVal(other)), BinaryOp(self, op, Len(h) + 1)>>]

(* other op self with other no Expr: Expr.__radd__, __rsub__, __rmul__,    *)
(* __rtruediv__. *)
Expr__rop__(h, op, self, other) ==
    [raised |-> "None",
     h |-> h \o <<Const(ArgVal(other)), BinaryOp(Len(h) + 1, op, self)>>]

(* The free functions sin and ln. *)
UnaryFn(h, fn, x) ==
    IF isNumber(x)
    THEN h \o <<Const(ArgVal(x)), UnaryOp(fn, Len(h) + 1)>>
    ELSE Append(h, UnaryOp(fn, ArgRef(x)))

RECURSIVE value(_, _)
value(h, t) ==
    IF t = ObjRef THEN Raise("AttributeError")
    ELSE LET n == h[t] IN
      CASE n.kind \in {"Var", "Const"} -> n.x
        [] n.kind = "Add" -> PyAdd(value(h, n.left), value(h, n.right))
        [] n.kind = "Sub" -> PySub(value(h, n.left), value(h, n.right))
        [] n.kind = "Mul" -> PyMul(value(h, n.left), value(h, n.right))
        [] n.kind = "Div" -> PyDiv(value(h, n.left), value(h, n.right))
        [] n.kind \in {"Sin", "Ln"} -> NpFn(value(h, n.opnd))

(* Var.dvdx comparing the values held instead of the objects *)
Var_dvdx_by_value(self, wrt) ==
    IF nodes[self].kind = nodes[wrt].kind /\ nodes[self].x = nodes[wrt].x
    THEN Num(1) ELSE Num(0)

Var_dvdx(self, wrt) == IF self = wrt THEN Num(1) ELSE Num(0)

RECURSIVE dvdx(_, _, _)
dvdx(h, t, wrt) ==
    IF t = ObjRef THEN Raise("AttributeError")
    ELSE LET n == h[t] IN
      CASE n.kind = "Var" -> Var_dvdx(t, wrt)
        [] n.kind = "Const" -> Num(0)
        [] n.kind = "Add" -> PyAdd(dvdx(h, n.left, wrt), dvdx(h, n.right, wrt))
        [] n.kind = "Sub" -> PySub(dvdx(h, n.left, wrt), dvdx(h, n.right, wrt))
        [] n.kind = "Mul" ->
             PyAdd(PyMul(value(h, n.left), dvdx(h, n.right, wrt)),
                   PyMul(value(h, n.right), dvdx(h, n.left, wrt)))
        [] n.kind = "Div" ->
             PyDiv(PySub(PyMul(dvdx(h, n.left, wrt), value(h, n.right)),
                         PyMul(value(h, n.left), dvdx(h, n.right, wrt))),
                   PyMul(value(h, n.right), value(h, n.right)))
        [] n.kind = "Sin" -> PyMul(NpFn(value(h, n.opnd)), dvdx(h, n.opnd, wrt))
        [] n.kind = "Ln" ->
             PyMul(PyDiv(Num(1), value(h, n.opnd)), dvdx(h, n.opnd, wrt))

-----------------------------------------------------------------------------
(* forward_ast.py: leaves and set_var_indices *)

Range(s) == {s[j] : j \in 1..Len(s)}

(* record_leaf without the membership test *)
record_leaf_always(the_leaves, node) == Append(the_leaves, node)

(* lines 206-207: `node not in the_leaves` compares identities *)
record_leaf(the_leaves, node) ==
    IF node \in Range(the_leaves) THEN the_leaves ELSE Append(the_leaves, node)

(* extend_work putting the children in front: a depth-first walk *)
extend_work_front(work, kids) == kids \o work

(* line 209: work += node.children() *)
extend_work(work, kids) == work \o kids

RECURSIVE leaves_loop(_, _, _)
leaves_loop(h, work, the_leaves) ==
    IF Len(work) = 0 THEN the_leaves
    ELSE LET node == Head(work)
             rest == Tail(work)
         IN IF Len(children(h[node])) = 0
            THEN leaves_loop(h, rest, record_leaf(the_leaves, node))
            ELSE leaves_loop(h, extend_work(rest, children(h[node])), the_leaves)

leaves(h, t) == leaves_loop(h, <<t>>, <<>>)

(* index_input naming after the counter was advanced *)
index_input_late_name(n, i) ==
    [n EXCEPT !.vi = i,
              !.varname = IF @ = NoneName THEN sub("x", i + 1) ELSE @]

(* lines 218-220: the body of the loop over the Var leaves *)
index_input(n, i) ==
    [n EXCEPT !.vi = i,
              !.varname = IF @ = NoneName THEN sub("x", i) ELSE @]

RECURSIVE index_inputs(_, _, _)
index_inputs(h, inputs, i) ==
    IF inputs = <<>> THEN [h |-> h, vi |-> i]
    ELSE index_inputs([h EXCEPT ![Head(inputs)] = index_input(@, i)],
                      Tail(inputs), i + 1)

(* index_leaf returning the counter unadvanced *)
index_leaf_no_advance(h, t, vi) == [h |-> [h EXCEPT ![t].vi = vi], vi |-> vi]

(* lines 229-234: a leaf takes the counter *)
index_leaf(h, t, vi) == [h |-> [h EXCEPT ![t].vi = vi], vi |-> vi + 1]

(* lines 236-239 and 241-242: an operator node takes the counter its        *)
(* children returned *)
index_op(h, t, vi) == [h |-> [h EXCEPT ![t].vi = vi], vi |-> vi + 1]

(* set_var_indices_ walking the right operand before the left *)
RECURSIVE set_var_indices_right_first(_, _, _)
set_var_indices_right_first(h, t, vi) ==
    LET n == h[t] IN
    IF n.vi >= 0 THEN [h |-> h, vi |-> vi]
    ELSE IF IsVar(n) \/ IsConst(n) THEN index_leaf(h, t, vi)
    ELSE IF IsBinaryOp(n)
    THEN LET r == set_var_indices_right_first(h, n.right, vi)
             l == set_var_indices_right_first(r.h, n.left, r.vi)
         IN index_op(l.h, t, l.vi)
    ELSE LET o == set_var_indices_right_first(h, n.opnd, vi)
         IN index_op(o.h, t, o.vi)

RECURSIVE set_var_indices_(_, _, _)
set_var_indices_(h, t, vi) ==
    LET n == h[t] IN
    IF n.vi >= 0 THEN [h |-> h, vi |-> vi]
    ELSE IF IsVar(n) \/ IsConst(n) THEN index_leaf(h, t, vi)
    ELSE IF IsBinaryOp(n)
    THEN LET l == set_var_indices_(h, n.left, vi)
             r == set_var_indices_(l.h, n.right, l.vi)
         IN index_op(r.h, t, r.vi)
    ELSE LET o == set_var_indices_(h, n.opnd, vi)
         IN index_op(o.h, t, o.vi)

set_var_indices(h, t, first_index) ==
    LET the_leaves == leaves(h, t)
        inputs == SelectSeq(the_leaves, LAMBDA n : IsVar(h[n]))
        p1 == index_inputs(h, inputs, first_index)
    IN set_var_indices_(p1.h, t, p1.vi).h

-----------------------------------------------------------------------------
(* forward.py: the dual-number evaluator *)

NoneVal == [t |-> "None", n |-> 0, d |-> 1]

(* Variable.__init__ testing the truth of dx: dx if dx else 1 *)
Variable_falsy_seed(x, dx) ==
    [x |-> x, dx |-> IF dx /= NoneVal /\ dx /= Num(0) THEN dx ELSE Num(1)]

(* Variable.__init__: dx if dx is not None else 1 *)
Variable(x, dx) == [x |-> x, dx |-> IF dx /= NoneVal THEN dx ELSE Num(1)]

(* Value(x, dx): the arguments are evaluated first, x before dx, and an    *)
(* exception raised there propagates instead of a Value.                   *)
Value(x, dx) ==
    IF IsRaise(x) THEN [x |-> x, dx |-> x]
    ELSE IF IsRaise(dx) THEN [x |-> dx, dx |-> dx]
    ELSE Variable(x, dx)

FwdNumber(c) == [t |-> "number", v |-> Num(c)]
FwdPair(p) == [t |-> "Variable", v |-> p]

(* reading .x or .dx of the right operand: a number has neither *)
other_x(other) == IF other.t = "number" THEN Raise("AttributeError") ELSE other.v.x
other_dx(other) == IF other.t = "number" THEN Raise("AttributeError") ELSE other.v.dx

Variable__add__(self, other) ==
    IF other.t = "number" THEN Value(PyAdd(self.x, other.v), self.dx)
    ELSE Value(self.x, PyAdd(self.dx, other_dx(other)))

Variable__radd__(self, other) == Variable__add__(self, other)

Variable__sub__(self, other) ==
    IF other.t = "number" THEN Value(PySub(self.x, other.v), self.dx)
    ELSE Value(self.x, PySub(self.dx, other_dx(other)))

Variable__rsub__(self, other) == Variable__sub__(self, other)

Variable__mul__(self, other) ==
    IF other.t = "number"
    THEN Value(PyMul(self.x, other.v), PyMul(other.v, self.dx))
    ELSE Value(PyMul(self.x, other_x(other)),
               PyAdd(PyMul(self.dx, other_x(other)),
                     PyMul(self.x, other_dx(other))))

Variable__rmul__(self, other) == Variable__mul__(self, other)

Variable__truediv__(self, other) ==
    IF other.t = "number"
    THEN Value(PyDiv(self.x, other_x(other)), PyDiv(self.dx, other_x(other)))
    ELSE Value(PyDiv(self.x, other_x(other)),
               PyDiv(PySub(PyMul(self.dx, other_x(other)),
                           PyMul(self.x, other_dx(other))),
                     PyMul(other_x(other), other_x(other))))

Variable__rtruediv__(self, other) == Variable__truediv__(self, other)

(* p op other, Python choosing the method of the left operand *)
FwdApply(op, self, other) ==
    CASE op = "+" -> Variable__add__(self, other)
      [] op = "-" -> Variable__sub__(self, other)
      [] op = "*" -> Variable__mul__(self, other)
      [] op = "/" -> Variable__truediv__(self, other)

(* c op p with c a plain number: the reflected method of p *)
FwdReflect(op, self, other) ==
    CASE op = "+" -> Variable__radd__(self, other)
      [] op = "-" -> Variable__rsub__(self, other)
      [] op = "*" -> Variable__rmul__(self, other)
      [] op = "/" -> Variable__rtruediv__(self, other)

(* The functions handed to gradient: Python lambdas over the overloads.    *)
RECURSIVE Fold(_, _, _)
Fold(op, acc, args) ==
    IF args = <<>> THEN acc
    ELSE Fold(op, FwdApply(op, acc, FwdPair(Head(args))), Tail(args))

ApplyF(f, args) ==
    CASE f = "sum" -> Fold("+", Head(args), Tail(args))
      [] f = "diff" -> Fold("-", Head(args), Tail(args))
      [] f = "prod" -> Fold("*", Head(args), Tail(args))
      [] f = "quot" -> Fold("/", Head(args), Tail(args))
      [] f = "first" -> Head(args)
      [] f = "sumprod" ->
           FwdApply("*", Fold("+", Head(args), Tail(args)), FwdPair(Head(args)))

(* line 65: the argument vector of the call for input i (1-based here) *)
seed(i, j) == IF i = j THEN Num(1) ELSE Num(0)

X_(X, i) == [j \in 1..Len(X) |-> Variable(Num(X[j]), seed(i, j))]

-----------------------------------------------------------------------------
(* State machine *)

Init ==
    /\ nodes = <<>>
    /\ pc = "ready"
    /\ ret = [call |-> "none"]
    /\ gX = <<>>
    /\ gf = "none"
    /\ gi = 0
    /\ gdX = <<>>
    /\ gcalls = <<>>

(* pc is "ready" while the client builds expressions.  A query (value,   *)
(* dvdx, leaves) changes no node, so every heap reachable after it is      *)
(* reachable without it: the model records its result and stops there      *)
(* ("returned").  set_var_indices is the one indexing pass of the nodes'   *)
(* lifetime ("indexed").                                                   *)
Ids == 1..Len(nodes)

(* Var(x) and Var(x, varname) *)
NewVar(max, vals, names) ==
    /\ pc = "ready"
    /\ Len(nodes) < max
    /\ \E x \in vals, nm \in names :
         /\ nodes' = Append(nodes, Var(Num(x), nm))
         /\ ret' = [call |-> "Var", res |-> Len(nodes) + 1]
    /\ UNCHANGED <<pc, gX, gf, gi, gdX, gcalls>>

(* Const(v) *)
NewConst(max) ==
    /\ pc = "ready"
    /\ Len(nodes) < max
    /\ \E c \in Numbers :
         /\ nodes' = Append(nodes, Const(Num(c)))
         /\ ret' = [call |-> "Const", res |-> Len(nodes) + 1]
    /\ UNCHANGED <<pc, gX, gf, gi, gdX, gcalls>>

(* self op other, self a node *)
Overload(max, ops, others) ==
    /\ pc = "ready"
    /\ \E op \in ops, self \in Ids, other \in others :
         LET r == Expr__op__(nodes, op, self, other) IN
         /\ Len(r.h) <= max
         /\ nodes' = r.h
         /\ ret' = [call |-> "__op__", op |-> op, self |-> self, other |-> other,
                    raised |-> r.raised, res |-> Len(r.h)]
    /\ UNCHANGED <<pc, gX, gf, gi, gdX, gcalls>>

(* other op self, self a node and other no node *)
Reflected(max, ops, others) ==
    /\ pc = "ready"
    /\ \E op \in ops, self \in Ids, other \in others :
         LET r == Expr__rop__(nodes, op, self, other) IN
         /\ Len(r.h) <= max
         /\ nodes' = r.h
         /\ ret' = [call |-> "__rop__", op |-> op, self |-> self, other |-> other,
                    raised |-> r.raised, res |-> Len(r.h)]
    /\ UNCHANGED <<pc, gX, gf, gi, gdX, gcalls>>

(* sin(x), ln(x) *)
CallUnary(max, fns, args) ==
    /\ pc = "ready"
    /\ \E fn \in fns, x \in args :
         LET h == UnaryFn(nodes, fn, x) IN
         /\ Len(h) <= max
         /\ nodes' = h
         /\ ret' = [call |-> fn, x |-> x, res |-> Len(h)]
    /\ UNCHANGED <<pc, gX, gf, gi, gdX, gcalls>>

(* t.value() *)
CallValue ==
    /\ pc = "ready"
    /\ \E t \in Ids :
         ret' = [call |-> "value", t |-> t, res |-> value(nodes, t)]
    /\ pc' = "returned"
    /\ UNCHANGED <<nodes, gX, gf, gi, gdX, gcalls>>

(* t.dvdx(wrt) *)
CallDvdx ==
    /\ pc = "ready"
    /\ \E t \in Ids, wrt \in Ids :
         ret' = [call |-> "dvdx", t |-> t, wrt |-> wrt, res |-> dvdx(nodes, t, wrt)]
    /\ pc' = "returned"
    /\ UNCHANGED <<nodes, gX, gf, gi, gdX, gcalls>>

(* leaves(t) *)
CallLeaves ==
    /\ pc = "ready"
    /\ \E t \in Ids :
         ret' = [call |-> "leaves", t |-> t, res |-> leaves(nodes, t)]
    /\ pc' = "returned"
    /\ UNCHANGED <<nodes, gX, gf, gi, gdX, gcalls>>

(* set_var_indices(t, first_index), the one indexing pass of the heap *)
CallSetVarIndices ==
    /\ pc = "ready"
    /\ \E t \in Ids, first_index \in FirstIndices :
         /\ nodes' = set_var_indices(nodes, t, first_index)
         /\ ret' = [call |-> "set_var_indices", t |-> t,
                    first_index |-> first_index, before |-> nodes]
    /\ pc' = "indexed"
    /\ UNCHANGED <<gX, gf, gi, gdX, gcalls>>

NodeArgs == {NodeArg(i) : i \in Ids}
NumArgs == {NumArg(c) : c \in Numbers}

NextAst ==
    \/ NewVar(MaxAstNodes, VarVals, {NoneName})
    \/ Overload(MaxAstNodes, BinOps, NodeArgs \cup NumArgs \cup {ObjArg})
    \/ Reflected(MaxAstNodes, BinOps, NumArgs \cup {ObjArg})
    \/ CallUnary(MaxAstNodes, UnaryFns, NodeArgs \cup NumArgs \cup {ObjArg})
    \/ CallValue
    \/ CallDvdx

SpecAst == Init /\ [][NextAst]_vars

NextIdx ==
    \/ NewVar(MaxIdxNodes, IdxVarVals, {NoneName} \cup {Given(s) : s \in GivenNames})
    \/ NewConst(MaxIdxNodes)
    \/ Overload(MaxIdxNodes, IdxBinOps, NodeArgs \cup NumArgs)
    \/ Reflected(MaxIdxNodes, IdxBinOps, NumArgs)
    \/ CallUnary(MaxIdxNodes, IdxUnaryFns, NodeArgs \cup NumArgs)
    \/ CallLeaves
    \/ CallSetVarIndices

SpecIdx == Init /\ [][NextIdx]_vars

(* forward.py *)

Pairs == {Variable(Num(a), dx) : a \in FwdVals,
                                 dx \in {NoneVal} \cup {Num(k) : k \in FwdSeeds}}

(* p op other, p a Variable and other a Variable or a plain number *)
FwdOp ==
    /\ pc = "ready"
    /\ \E op \in BinOps, p \in Pairs,
          other \in {FwdPair(q) : q \in Pairs} \cup {FwdNumber(c) : c \in Numbers} :
         ret' = [call |-> "fwd_op", op |-> op, self |-> p, other |-> other,
                 res |-> FwdApply(op, p, other)]
    /\ pc' = "returned"
    /\ UNCHANGED <<nodes, gX, gf, gi, gdX, gcalls>>

(* c op p, c a plain number and p a Variable *)
FwdROp ==
    /\ pc = "ready"
    /\ \E op \in BinOps, p \in Pairs, c \in Numbers :
         ret' = [call |-> "fwd_rop", op |-> op, self |-> p, other |-> FwdNumber(c),
                 res |-> FwdReflect(op, p, FwdNumber(c))]
    /\ pc' = "returned"
    /\ UNCHANGED <<nodes, gX, gf, gi, gdX, gcalls>>

(* gradient(f, *X) is entered: dX = [] *)
CallGradient ==
    /\ pc = "ready"
    /\ \E f \in GradFns, n \in 1..MaxArgs :
         \E X \in [1..n -> FwdVals] :
           /\ gX' = X
           /\ gf' = f
    /\ gi' = 0
    /\ gdX' = <<>>
    /\ gcalls' = <<>>
    /\ pc' = "gradient"
    /\ ret' = [call |-> "gradient"]
    /\ UNCHANGED nodes

(* lines 63-67: one iteration of the loop; an exception of f ends gradient *)
GradientStep ==
    /\ pc = "gradient"
    /\ gi < Len(gX)
    /\ LET args == X_(gX, gi + 1)
           result == ApplyF(gf, args)
       IN /\ gcalls' = Append(gcalls, args)
          /\ IF IsRaise(result.x)
             THEN /\ pc' = "raised"
                  /\ ret' = [call |-> "gradient", raised |-> result.x.t]
                  /\ UNCHANGED <<gi, gdX>>
             ELSE /\ gdX' = Append(gdX, result.dx)
                  /\ gi' = gi + 1
                  /\ UNCHANGED <<pc, ret>>
    /\ UNCHANGED <<nodes, gX, gf>>

(* line 68: return dX *)
GradientReturn ==
    /\ pc = "gradient"
    /\ gi = Len(gX)
    /\ pc' = "returned"
    /\ ret' = [call |-> "gradient", res |-> gdX]
    /\ UNCHANGED <<nodes, gX, gf, gi, gdX, gcalls>>

NextFwd ==
    \/ FwdOp
    \/ FwdROp
    \/ CallGradient
    \/ GradientStep
    \/ GradientReturn

SpecFwd == Init /\ [][NextFwd]_vars

-----------------------------------------------------------------------------
(* Properties.  Helper notions used to state them, defined without the     *)
(* algorithms above.                                                       *)

kids(h, S) == UNION {Range(children(h[n])) : n \in S}

RECURSIVE ReachFrom(_, _)
ReachFrom(h, S) ==
    LET N == S \cup kids(h, S) IN IF N = S THEN S ELSE ReachFrom(h, N)

(* the node objects reachable from t *)
Reachable(h, t) == ReachFrom(h, {t})

RECURSIVE Flatten(_)
Flatten(ss) == IF ss = <<>> THEN <<>> ELSE Head(ss) \o Flatten(Tail(ss))

RECURSIVE FirstSeen(_)
FirstSeen(s) ==
    IF s = <<>> THEN <<>>
    ELSE LET front == FirstSeen(SubSeq(s, 1, Len(s) - 1))
             last == s[Len(s)]
         IN IF last \in Range(front) THEN front ELSE Append(front, last)

(* the tree positions level by level, each level left to right *)
RECURSIVE LevelOrder(_, _)
LevelOrder(h, level) ==
    IF level = <<>> THEN <<>>
    ELSE level \o LevelOrder(h, Flatten([j \in 1..Len(level) |-> children(h[level[j]])]))

IsLeaf(n) == Len(children(n)) = 0

(* the leaf objects in breadth-first first-seen order *)
BreadthFirstLeaves(h, t) ==
    FirstSeen(SelectSeq(LevelOrder(h, <<t>>), LAMBDA n : IsLeaf(h[n])))

(* the tree positions in post-order: left subtree, right subtree, node *)
RECURSIVE PostOrder(_, _)
PostOrder(h, t) ==
    Append(Flatten([j \in 1..Len(children(h[t])) |-> PostOrder(h, children(h[t])[j])]), t)

(* the leaf objects in depth-first first-seen order *)
DepthFirstLeaves(h, t) ==
    FirstSeen(SelectSeq(PostOrder(h, t), LAMBDA n : IsLeaf(h[n])))

(* a and b are of the same class and hold the same value *)
ValueEqual(a, b) == a.kind = b.kind /\ a.x = b.x

Indexed == pc = "indexed"
T0 == ret.t
H0 == ret.before
VarsOf(h, t) == {n \in Reachable(h, t) : IsVar(h[n])}
VarLeaves(h, t) == SelectSeq(BreadthFirstLeaves(h, t), LAMBDA n : IsVar(h[n]))

-----------------------------------------------------------------------------
(* C1: after set_var_indices(t, first_index) with first_index >= 0 on      *)
(* nodes that all start at -1, every node reachable from t has an index    *)
(* >= 0 and no two distinct reachable node objects share an index, shared  *)
(* node objects (x*x) included.                                            *)
C1_UniqueNonNegativeIndices ==
    (Indexed /\ ret.first_index >= 0) =>
        /\ \A n \in Reachable(nodes, T0) : nodes[n].vi >= 0
        /\ \A n, m \in Reachable(nodes, T0) : n /= m => nodes[n].vi /= nodes[m].vi

(* an indexed expression with one object at two positions and two more nodes *)
C1_Witness ==
    /\ Indexed /\ ret.first_index >= 0
    /\ \E n \in Reachable(nodes, T0) :
         IsBinaryOp(nodes[n]) /\ nodes[n].left = nodes[n].right
    /\ Cardinality(Reachable(nodes, T0)) >= 3

C3_NameIsFinalIndex ==
    Indexed =>
        \A n \in VarsOf(H0, T0) :
            nodes[n].varname = IF H0[n].varname = NoneName
                               THEN sub("x", nodes[n].vi)
                               ELSE H0[n].varname

(* C3, amended: the same for first_index >= 0 on nodes not indexed before. *)
C3_NameIsFinalIndexNonNegative ==
    (Indexed /\ ret.first_index >= 0) =>
        \A n \in VarsOf(H0, T0) :
            nodes[n].varname = IF H0[n].varname = NoneName
                               THEN sub("x", nodes[n].vi)
                               ELSE H0[n].varname

(* an indexed expression holding a named and an unnamed Var, the unnamed   *)
(* one not first                                                           *)
C3_Witness ==
    /\ Indexed /\ ret.first_index >= 0
    /\ \E n, m \in VarsOf(H0, T0) :
         /\ H0[n].varname = NoneName
         /\ H0[m].varname /= NoneName
         /\ nodes[n].vi > ret.first_index

(* C4 as claimed: leaves(t) returns no two value-equal entries and exactly *)
(* k+m entries for k distinct variable values and m distinct constant      *)
(* values among the leaves.                                                *)
C4_NoValueEqualEntries ==
    (pc = "returned" /\ ret.call = "leaves") =>
        LET L == {n \in Reachable(nodes, ret.t) : IsLeaf(nodes[n])}
            k == Cardinality({nodes[n].x : n \in {l \in L : IsVar(nodes[l])}})
            m == Cardinality({nodes[n].x : n \in {l \in L : IsConst(nodes[l])}})
        IN /\ \A i, j \in 1..Len(ret.res) :
                i /= j => ~ValueEqual(nodes[ret.res[i]], nodes[ret.res[j]])
           /\ Len(ret.res) = k + m

(* C4, amended: leaves(t) returns every leaf object reachable from t once: *)
(* no object twice, and as many entries as there are distinct leaf         *)
(* objects, whatever their values.                                         *)
C4_NoObjectTwice ==
    (pc = "returned" /\ ret.call = "leaves") =>
        LET L == {n \in Reachable(nodes, ret.t) : IsLeaf(nodes[n])}
        IN /\ \A i, j \in 1..Len(ret.res) : i /= j => ret.res[i] /= ret.res[j]
           /\ Range(ret.res) = L
           /\ Len(ret.res) = Cardinality(L)

(* leaves of an expression where one leaf object occurs at two positions   *)
(* and two separate leaf objects are value-equal                           *)
C4_Witness ==
    /\ pc = "returned" /\ ret.call = "leaves"
    /\ \E n \in Reachable(nodes, ret.t) :
         IsBinaryOp(nodes[n]) /\ nodes[n].left = nodes[n].right /\ IsLeaf(nodes[nodes[n].left])
    /\ \E i, j \in 1..Len(ret.res) :
         i /= j /\ ValueEqual(nodes[ret.res[i]], nodes[ret.res[j]])

-----------------------------------------------------------------------------
IsSub(h, t, lkind, lx, rkind, rx) ==
    /\ h[t].kind = "Sub"
    /\ h[t].left \in 1..Len(h) /\ h[t].right \in 1..Len(h)
    /\ h[h[t].left].kind = lkind /\ h[h[t].left].x = Num(lx)
    /\ h[h[t].right].kind = rkind /\ h[h[t].right].x = Num(rx)

(* C5 as claimed: for a Var v, v.dvdx(wrt) is 1 when wrt is value-equal to *)
(* v (not necessarily the same object) and 0 otherwise.                    *)
C5_DvdxByValueEquality ==
    (pc = "returned" /\ ret.call = "dvdx" /\ IsVar(nodes[ret.t])) =>
        ret.res = IF ValueEqual(nodes[ret.t], nodes[ret.wrt]) THEN Num(1) ELSE Num(0)

(* C5, amended: for a Var v, v.dvdx(wrt) is 1 when wrt is the very object  *)
(* v and 0 otherwise; a separately constructed Var with an equal value     *)
(* gives 0.                                                                *)
C5_DvdxByIdentity ==
    (pc = "returned" /\ ret.call = "dvdx" /\ IsVar(nodes[ret.t])) =>
        ret.res = IF ret.t = ret.wrt THEN Num(1) ELSE Num(0)

(* dvdx of a Var with respect to another, value-equal Var *)
C5_Witness ==
    /\ pc = "returned" /\ ret.call = "dvdx"
    /\ IsVar(nodes[ret.t]) /\ ret.t /= ret.wrt
    /\ ValueEqual(nodes[ret.t], nodes[ret.wrt])

(* C6: for a node x, a plain number c and op in {+,-,*,/}, `c op x` builds *)
(* Op(Const(c), x) and `x op c` builds Op(x, Const(c)); for Var x = 2,     *)
(* 5 - x has value 3 and derivative -1 with respect to x, and x - 5 has    *)
(* value -3 and derivative 1.                                              *)
C6_OperandOrderKept ==
    /\ (ret.call = "__rop__" /\ isNumber(ret.other)) =>
          /\ nodes[ret.res] = BinaryOp(ret.res - 1, ret.op, ret.self)
          /\ nodes[ret.res - 1] = Const(Num(ret.other.v))
    /\ (ret.call = "__op__" /\ isNumber(ret.other)) =>
          /\ nodes[ret.res] = BinaryOp(ret.self, ret.op, ret.res - 1)
          /\ nodes[ret.res - 1] = Const(Num(ret.other.v))
    /\ (pc = "returned" /\ ret.call = "value") =>
          /\ IsSub(nodes, ret.t, "Const", 5, "Var", 2) => ret.res = Num(3)
          /\ IsSub(nodes, ret.t, "Var", 2, "Const", 5) => ret.res = Num(0 - 3)
    /\ (pc = "returned" /\ ret.call = "dvdx") =>
          /\ (IsSub(nodes, ret.t, "Const", 5, "Var", 2) /\ ret.wrt = nodes[ret.t].right)
                => ret.res = Num(0 - 1)
          /\ (IsSub(nodes, ret.t, "Var", 2, "Const", 5) /\ ret.wrt = nodes[ret.t].left)
                => ret.res = Num(1)

(* the derivative of 5 - x with respect to x has been asked, x = 2 *)
C6_Witness ==
    /\ pc = "returned" /\ ret.call = "dvdx"
    /\ IsSub(nodes, ret.t, "Const", 5, "Var", 2)
    /\ ret.wrt = nodes[ret.t].right
    /\ ret.res = Num(0 - 1)

HoldsObject(n) == n.x = Obj \/ ObjRef \in Range(children(n))

(* C7 as claimed: an overload given an operand that is neither a node nor  *)
(* a plain number fails with UnsupportedOperandType and no node holding    *)
(* that operand is produced.                                               *)
C7_ObjectOperandRejected ==
    (ret.call \in {"__op__", "__rop__"} /\ ret.other = ObjArg) =>
        /\ ret.raised = "UnsupportedOperandType"
        /\ \A n \in Ids : ~HoldsObject(nodes[n])

(* C7, amended: an overload given such an operand raises nothing: with the *)
(* node on the left it builds Op(node, operand) holding the operand itself *)
(* as right child, with the node on the right it builds                    *)
(* Op(Const(operand), node).                                               *)
C7_ObjectOperandBuilt ==
    (ret.call \in {"__op__", "__rop__"} /\ ret.other = ObjArg) =>
        /\ ret.raised = "None"
        /\ ret.call = "__op__" =>
              nodes[ret.res] = BinaryOp(ret.self, ret.op, ObjRef)
        /\ ret.call = "__rop__" =>
              /\ nodes[ret.res] = BinaryOp(ret.res - 1, ret.op, ret.self)
              /\ nodes[ret.res - 1] = Const(Obj)

(* node - object has been built *)
C7_Witness ==
    /\ ret.call = "__op__" /\ ret.other = ObjArg /\ ret.op = "-"
    /\ HoldsObject(nodes[ret.res])

(* C8: for paired values p = (a, da) and q = (b, db): p + q is             *)
(* (a+b, da+db), p - q is (a-b, da-db), p * q is (a*b, da*b + a*db), and   *)
(* for b /= 0 p / q is (a/b, (da*b - a*db)/b^2).                           *)
C8_PairArithmetic ==
    (ret.call = "fwd_op" /\ ret.other.t = "Variable") =>
        LET a == ret.self.x
            da == ret.self.dx
            b == ret.other.v.x
            db == ret.other.v.dx
        IN /\ ret.op = "+" => ret.res = [x |-> PyAdd(a, b), dx |-> PyAdd(da, db)]
           /\ ret.op = "-" => ret.res = [x |-> PySub(a, b), dx |-> PySub(da, db)]
           /\ ret.op = "*" =>
                ret.res = [x |-> PyMul(a, b), dx |-> PyAdd(PyMul(da, b), PyMul(a, db))]
           /\ (ret.op = "/" /\ b /= Num(0)) =>
                ret.res = [x |-> PyDiv(a, b),
                           dx |-> PyDiv(PySub(PyMul(da, b), PyMul(a, db)), PyMul(b, b))]

(* C9: gradient(f, x1..xn) calls f exactly n times; in call i argument j   *)
(* is a paired value with value xj and seed 1 if j = i and 0 otherwise (a  *)
(* seed of 0 stays 0); the list returned has n entries, entry i the        *)
(* derivative field of the result of call i.                               *)
C9_GradientSeeds ==
    (pc = "returned" /\ ret.call = "gradient") =>
        /\ Len(gcalls) = Len(gX)
        /\ \A i \in 1..Len(gcalls) :
             /\ Len(gcalls[i]) = Len(gX)
             /\ \A j \in 1..Len(gX) :
                  gcalls[i][j] = [x |-> Num(gX[j]),
                                  dx |-> IF i = j THEN Num(1) ELSE Num(0)]
        /\ Len(ret.res) = Len(gX)
        /\ \A i \in 1..Len(gX) : ret.res[i] = ApplyF(gf, gcalls[i]).dx

(* gradient of a two-argument function has returned two different partials *)
C9_Witness ==
    /\ pc = "returned" /\ ret.call = "gradient"
    /\ Len(gX) = 2
    /\ ret.res[1] /= ret.res[2]

(* C10 as claimed: phase 2 numbers the Const and operator nodes in         *)
(* post-order (left, right, node; operand, node) with consecutive indices  *)
(* from first_index + k, k the number of Vars; every operator's index is   *)
(* greater than its children's; separate Const objects get separate        *)
(* indices.                                                                *)
C10_PostOrderFromFirstPlusK ==
    Indexed =>
        LET k == Cardinality(VarsOf(H0, T0))
            po == SelectSeq(FirstSeen(PostOrder(H0, T0)), LAMBDA n : ~IsVar(H0[n]))
        IN /\ \A j \in 1..Len(po) : nodes[po[j]].vi = ret.first_index + k + j - 1
           /\ \A n \in Reachable(H0, T0) :
                \A c \in Range(children(H0[n])) : nodes[n].vi > nodes[c].vi
           /\ \A n, m \in Reachable(H0, T0) :
                (n /= m /\ IsConst(H0[n]) /\ IsConst(H0[m])) => nodes[n].vi /= nodes[m].vi

(* C10, amended: the same for first_index >= 0.                            *)
C10_PostOrderNonNegative ==
    (Indexed /\ ret.first_index >= 0) =>
        LET k == Cardinality(VarsOf(H0, T0))
            po == SelectSeq(FirstSeen(PostOrder(H0, T0)), LAMBDA n : ~IsVar(H0[n]))
        IN /\ \A j \in 1..Len(po) : nodes[po[j]].vi = ret.first_index + k + j - 1
           /\ \A n \in Reachable(H0, T0) :
                \A c \in Range(children(H0[n])) : nodes[n].vi > nodes[c].vi
           /\ \A n, m \in Reachable(H0, T0) :
                (n /= m /\ IsConst(H0[n]) /\ IsConst(H0[m])) => nodes[n].vi /= nodes[m].vi

(* an indexed binary operator with an operator node as a child, over a Var *)
(* and a Const, numbered from a first_index > 0                            *)
C10_Witness ==
    /\ Indexed /\ ret.first_index > 0
    /\ IsBinaryOp(H0[T0])
    /\ \E c \in Range(children(H0[T0])) : ~IsLeaf(H0[c])
    /\ VarsOf(H0, T0) /= {}
    /\ \E n \in Reachable(H0, T0) : IsConst(H0[n])

====
